---- MODULE Spec2Model ----
(***************************************************************************)
(* A model of service_registry.py: the CircuitBreaker class, the           *)
(* circuit_breaker decorator, and the ServiceRegistry class with its       *)
(* health-check threads.                                                   *)
(*                                                                         *)
(* Python values are modelled as follows.  None is the string "None";      *)
(* the "healthy" field, which the code sets to True, False and None, is    *)
(* one of "True", "False", "None" and its truth value is Truthy.  A dict   *)
(* is the sequence of its entries in insertion order.  A call that raises  *)
(* returns the name of the exception in place of a value.                  *)
(*                                                                         *)
(* Atomicity.  The foreground caller is one sequential thread; each of     *)
(* its calls is one step, except simulate_service_is_unhealthy, whose two  *)
(* field writes are two steps.  A health-check thread is preempted where   *)
(* it blocks (time.sleep, the HTTP round trip) and between the two field   *)
(* writes of _simulate_health_check; what it runs between two such points  *)
(* is one step.  Logging is left out.                                      *)
(***************************************************************************)
EXTENDS Integers, Sequences, FiniteSets, Bags, TLC

VARIABLES
    registered_services,  \* registry -> its dict, as a sequence of entries
    service_tracing,      \* registry -> its tracing counters
    threads,              \* bag of the live health-check threads
    hc_breaker,           \* the one CircuitBreaker the decorator creates
    fg,                   \* the foreground caller's position
    returned,             \* the foreground call that returned in the last step
    circuit_breaker,      \* a CircuitBreaker instance driven directly
    now,                  \* wall-clock time (time.time())
    opened_at,            \* wall-clock time of circuit_breaker's last open()
    calls_made,           \* make_remote_call calls on circuit_breaker so far
    only_failing_calls,   \* nothing but make_remote_call of a failing
                          \* operation was called on circuit_breaker so far
    only_remote_calls,    \* nothing but make_remote_call was called on
                          \* circuit_breaker so far
    failures_in_a_row     \* how many of the latest operations that
                          \* circuit_breaker ran failed, one after another

vars == <<registered_services, service_tracing, threads, hc_breaker, fg,
          returned, circuit_breaker, now, opened_at, calls_made,
          only_failing_calls, only_remote_calls, failures_in_a_row>>

registry_vars == <<registered_services, service_tracing, threads, hc_breaker, fg>>
breaker_vars == <<circuit_breaker, now, opened_at, calls_made, only_failing_calls,
                  only_remote_calls, failures_in_a_row>>

---------------------------------------------------------------------------
(* Bounds of the model *)

MaxThreads == 1           \* health-check threads alive at once
MaxFailureRequests == 1   \* cap of service_tracing["failure_requests"]
MaxFailureCounts == 4     \* cap of circuit_breaker.failure_counts
MaxCalls == 4             \* cap of calls_made
MaxTime == 6              \* cap of the wall clock
MaxStarts == 2            \* health-check threads alive at once, in StartsSpec

(* Program constants *)

HC_THRESHOLD == 3         \* @circuit_breaker(threhsold=3, ...)
HC_TIMEOUT == 5           \* @circuit_breaker(..., timeout=5)
TEST_THRESHOLD == 3       \* CircuitBreaker(threshold=3, ...) of the tests
TEST_TIMEOUT == 5         \* CircuitBreaker(..., timeout=5) of the tests

Registries == {1, 2}
ServiceNames == {"A", "B"}
Urls == {"u1", "u2"}
\* the (name, url) pairs a name is first registered with
Registrations == {<<"A", "u1">>, <<"B", "u2">>}
Thresholds == {2, TEST_THRESHOLD}
Timeouts == {0, TEST_TIMEOUT}

None == "None"
NoTime == -1              \* last_time_of_failure = None

---------------------------------------------------------------------------
(* CircuitBreaker *)

CircuitBreaker(threshold, timeout, t) ==
    [threshold |-> threshold, timeout |-> timeout, failure_counts |-> 0,
     state |-> "CLOSED", last_time_of_failure |-> NoTime, timestamp |-> t]

open(cb) == [cb EXCEPT !.state = "OPEN", !.last_time_of_failure = cb.timestamp]

\* close without the reset of failure_counts
close_keeps_count(cb) == [cb EXCEPT !.state = "CLOSED"]

close(cb) == [cb EXCEPT !.state = "CLOSED", !.failure_counts = 0]

half_open(cb) == [cb EXCEPT !.state = "HALF"]

\* handle_open_state with > for >=
handle_open_state_late(cb) == cb.failure_counts > cb.threshold

handle_open_state(cb) == cb.failure_counts >= cb.threshold

\* timestamp - None raises TypeError
handle_reset_state(cb) ==
    IF cb.last_time_of_failure = NoTime THEN "TypeError"
    ELSE IF cb.timestamp - cb.last_time_of_failure >= cb.timeout THEN "True"
    ELSE "False"

\* make_remote_call, before the operation runs: "skip" (return None),
\* "TypeError" (raised by handle_reset_state) or "run" (the operation runs)
remote_call_gate(cb) ==
    IF cb.state = "OPEN"
    THEN CASE handle_reset_state(cb) = "TypeError" -> "TypeError"
           [] handle_reset_state(cb) = "False" -> "skip"
           [] OTHER -> "run"
    ELSE "run"

\* make_remote_call, after the operation returned normally
remote_call_success(cb) == IF cb.state = "HALF" THEN close(cb) ELSE cb

\* make_remote_call, after the operation raised an Exception
remote_call_failure(cb) ==
    LET counted == [cb EXCEPT !.failure_counts = @ + 1]
    IN IF handle_open_state(counted) THEN open(counted) ELSE counted

\* make_remote_call(func) as a whole, for an operation that does nothing but
\* return "Success" (func = "ok") or raise an Exception (func = "raise"):
\* the breaker afterwards and the value returned or the exception raised
make_remote_call(cb, func) ==
    CASE remote_call_gate(cb) = "skip" -> [cb |-> cb, val |-> None]
      [] remote_call_gate(cb) = "TypeError" -> [cb |-> cb, val |-> "TypeError"]
      [] OTHER ->
           IF func = "ok"
           THEN [cb |-> remote_call_success(cb), val |-> "Success"]
           ELSE [cb |-> remote_call_failure(cb), val |-> "CircuitBreakerException"]

---------------------------------------------------------------------------
(* The registry's dict *)

Truthy(v) == v = "True"

Keys(rs) == {rs[i].service_name : i \in 1..Len(rs)}

IndexOf(rs, name) == CHOOSE i \in 1..Len(rs) : rs[i].service_name = name

Entry(rs, name) == rs[IndexOf(rs, name)]

SetField(rs, name, f, v) == [rs EXCEPT ![IndexOf(rs, name)][f] = v]

DelKey(rs, name) == SelectSeq(rs, LAMBDA e : e.service_name # name)

NewEntry(name, url) ==
    [url |-> url, service_name |-> name, assigned |-> FALSE,
     assigned_service |-> None, healthy |-> "True", availability |-> "STARTING"]

\* "returned" after a step in which no foreground call returned
NoCall == [op |-> "none", reg |-> 0, name |-> None, val |-> None, pre |-> None]

\* "returned" after a call of a registry method
Call(op, r, name, val) ==
    [op |-> op, reg |-> r, name |-> name, val |-> val, pre |-> None]

\* "returned" after a call of a method of circuit_breaker, which was in state
\* pre when called
BreakerCall(op, func, val, pre) ==
    [op |-> op, reg |-> 0, name |-> func, val |-> val, pre |-> pre]

\* a health-check thread of registry r at the top of _health_check's loop
NewThread(r) == [reg |-> r, pc |-> "loop", name |-> None]

Replace(t, u) == (threads (-) SetToBag({t})) (+) SetToBag({u})

\* thread t ends with an uncaught exception
Dies(t) == threads (-) SetToBag({t})

---------------------------------------------------------------------------
(* Initial state: a module freshly imported, registries just constructed *)

Init ==
    /\ registered_services = [r \in Registries |-> <<>>]
    /\ service_tracing =
         [r \in Registries |->
            [total_requests |-> 0, successful_requests |-> 0,
             failure_requests |-> 0, duration |-> 0]]
    /\ threads = EmptyBag
    /\ hc_breaker = CircuitBreaker(HC_THRESHOLD, HC_TIMEOUT, 0)
    /\ fg = [pc |-> "idle", reg |-> 0, name |-> None]
    /\ returned = NoCall
    /\ circuit_breaker = CircuitBreaker(TEST_THRESHOLD, TEST_TIMEOUT, 0)
    /\ now = 0
    /\ opened_at = NoTime
    /\ calls_made = 0
    /\ only_failing_calls = TRUE
    /\ only_remote_calls = TRUE
    /\ failures_in_a_row = 0

Idle == fg.pc = "idle"

---------------------------------------------------------------------------
(* ServiceRegistry: the foreground calls *)

\* register_services without its check for a registered name
register_services_overwrite(r, service_name, service_url) ==
    /\ Idle
    /\ registered_services' =
         [registered_services EXCEPT
            ![r] = IF service_name \in Keys(@)
                   THEN [@ EXCEPT ![IndexOf(@, service_name)] =
                                     NewEntry(service_name, service_url)]
                   ELSE Append(@, NewEntry(service_name, service_url))]
    /\ returned' = Call("register_services", r, service_name, None)
    /\ UNCHANGED <<service_tracing, threads, hc_breaker, fg, breaker_vars>>

register_services(r, service_name, service_url) ==
    /\ Idle
    /\ IF service_name \in Keys(registered_services[r])
       THEN /\ returned' = Call("register_services", r, service_name, "ValueError")
            /\ UNCHANGED registered_services
       ELSE /\ registered_services' =
                 [registered_services EXCEPT
                    ![r] = Append(@, NewEntry(service_name, service_url))]
            /\ returned' = Call("register_services", r, service_name, None)
    /\ UNCHANGED <<service_tracing, threads, hc_breaker, fg, breaker_vars>>

\* get_service without its check of "healthy"
get_service_value_unchecked(rs, service_name) ==
    IF service_name \notin Keys(rs) THEN "ValueError"
    ELSE Entry(rs, service_name).url

\* the value get_service returns, or the exception it raises
get_service_value(rs, service_name) ==
    IF service_name \notin Keys(rs) THEN "ValueError"
    ELSE IF ~Truthy(Entry(rs, service_name).healthy) THEN "ValueError"
    ELSE Entry(rs, service_name).url

get_service(r, service_name) ==
    /\ Idle
    /\ returned' = Call("get_service", r, service_name,
                        get_service_value(registered_services[r], service_name))
    /\ UNCHANGED <<registry_vars, breaker_vars>>

\* key is [kind |-> "str", v |-> a name] or [kind |-> "list", v |-> names];
\* "key in dict" hashes the key, and a list is unhashable
get_service_name_url(rs, key) ==
    IF key.kind = "list" THEN "TypeError"
    ELSE IF key.v \in Keys(rs) THEN Entry(rs, key.v).url
    ELSE None

Str(name) == [kind |-> "str", v |-> name]
List(names) == [kind |-> "list", v |-> names]

\* the list comprehension of get_available_services
available_services(rs) ==
    LET avail == SelectSeq(rs, LAMBDA e : e.availability = "AVAILABLE")
    IN [i \in 1..Len(avail) |-> avail[i].service_name]

get_available_services_value(rs, service_name) ==
    IF service_name \in Keys(rs) /\ Entry(rs, service_name).assigned
    THEN get_service_name_url(rs, Str(Entry(rs, service_name).assigned_service))
    ELSE IF service_name \in Keys(rs) /\ Truthy(Entry(rs, service_name).healthy)
    THEN get_service_name_url(rs, Str(service_name))
    ELSE IF available_services(rs) # <<>>
    THEN get_service_name_url(rs, List(available_services(rs)))
    ELSE None

get_available_services(r, service_name) ==
    /\ Idle
    /\ returned' = Call("get_available_services", r, service_name,
                        get_available_services_value(registered_services[r],
                                                     service_name))
    /\ UNCHANGED <<registry_vars, breaker_vars>>

\* simulate_service_is_unhealthy without its test of the availability
simulate_service_is_unhealthy_any(r, service_name) ==
    LET rs == registered_services[r] IN
    /\ Idle
    /\ IF service_name \notin Keys(rs)
       THEN /\ returned' = Call("simulate_service_is_unhealthy", r, service_name,
                                "ValueError")
            /\ UNCHANGED <<registered_services, fg>>
       ELSE IF Truthy(Entry(rs, service_name).healthy)
       THEN /\ service_tracing[r].failure_requests < MaxFailureRequests
            /\ registered_services' =
                 [registered_services EXCEPT
                    ![r] = SetField(@, service_name, "availability", "DOWN")]
            /\ fg' = [pc |-> "simulate_healthy", reg |-> r, name |-> service_name]
            /\ returned' = NoCall
       ELSE /\ returned' = Call("simulate_service_is_unhealthy", r, service_name,
                                None)
            /\ UNCHANGED <<registered_services, fg>>
    /\ UNCHANGED <<service_tracing, threads, hc_breaker, breaker_vars>>

\* simulate_service_is_unhealthy up to and including its first write
simulate_service_is_unhealthy(r, service_name) ==
    LET rs == registered_services[r] IN
    /\ Idle
    /\ IF service_name \notin Keys(rs)
       THEN /\ returned' = Call("simulate_service_is_unhealthy", r, service_name,
                                "ValueError")
            /\ UNCHANGED <<registered_services, fg>>
       ELSE IF /\ Truthy(Entry(rs, service_name).healthy)
               /\ Entry(rs, service_name).availability = "AVAILABLE"
       THEN /\ service_tracing[r].failure_requests < MaxFailureRequests
            /\ registered_services' =
                 [registered_services EXCEPT
                    ![r] = SetField(@, service_name, "availability", "DOWN")]
            /\ fg' = [pc |-> "simulate_healthy", reg |-> r, name |-> service_name]
            /\ returned' = NoCall
       ELSE /\ returned' = Call("simulate_service_is_unhealthy", r, service_name,
                                None)
            /\ UNCHANGED <<registered_services, fg>>
    /\ UNCHANGED <<service_tracing, threads, hc_breaker, breaker_vars>>

\* simulate_service_is_unhealthy from its second write on
simulate_service_is_unhealthy_2 ==
    /\ fg.pc = "simulate_healthy"
    /\ registered_services' =
         [registered_services EXCEPT
            ![fg.reg] = SetField(@, fg.name, "healthy", "False")]
    /\ service_tracing' =
         [service_tracing EXCEPT ![fg.reg].failure_requests = @ + 1]
    /\ returned' = Call("simulate_service_is_unhealthy", fg.reg, fg.name, None)
    /\ fg' = [pc |-> "idle", reg |-> 0, name |-> None]
    /\ UNCHANGED <<threads, hc_breaker, breaker_vars>>

\* assign_service without its check of the target's "healthy"
assign_service_unchecked(r, service_name, assigned_service_name) ==
    LET rs == registered_services[r] IN
    /\ Idle
    /\ IF /\ service_name \in Keys(rs)
          /\ assigned_service_name \in Keys(rs)
       THEN registered_services' =
              [registered_services EXCEPT
                 ![r] = SetField(SetField(@, service_name, "assigned", TRUE),
                                 service_name, "assigned_service",
                                 assigned_service_name)]
       ELSE UNCHANGED registered_services
    /\ returned' = Call("assign_service", r, service_name, None)
    /\ UNCHANGED <<service_tracing, threads, hc_breaker, fg, breaker_vars>>

assign_service(r, service_name, assigned_service_name) ==
    LET rs == registered_services[r] IN
    /\ Idle
    /\ IF /\ service_name \in Keys(rs)
          /\ assigned_service_name \in Keys(rs)
          /\ Truthy(Entry(rs, assigned_service_name).healthy)
       THEN registered_services' =
              [registered_services EXCEPT
                 ![r] = SetField(SetField(@, service_name, "assigned", TRUE),
                                 service_name, "assigned_service",
                                 assigned_service_name)]
       ELSE UNCHANGED registered_services
    /\ returned' = Call("assign_service", r, service_name, None)
    /\ UNCHANGED <<service_tracing, threads, hc_breaker, fg, breaker_vars>>

deregister_service(r, service_name) ==
    /\ Idle
    /\ IF service_name \notin Keys(registered_services[r])
       THEN /\ returned' = Call("deregister_service", r, service_name, "ValueError")
            /\ UNCHANGED registered_services
       ELSE /\ registered_services' =
                 [registered_services EXCEPT ![r] = DelKey(@, service_name)]
            /\ returned' = Call("deregister_service", r, service_name, None)
    /\ UNCHANGED <<service_tracing, threads, hc_breaker, fg, breaker_vars>>

gracefully_shutdown(r, service_name) ==
    /\ Idle
    /\ IF service_name \in Keys(registered_services[r])
       THEN /\ registered_services' =
                 [registered_services EXCEPT
                    ![r] = DelKey(SetField(@, service_name, "availability", "DOWN"),
                                  service_name)]
       ELSE UNCHANGED registered_services
    /\ returned' = Call("gracefully_shutdown", r, service_name, None)
    /\ UNCHANGED <<service_tracing, threads, hc_breaker, fg, breaker_vars>>

\* deregister_all_services' loop leaving after its first deletion
DelKeys_first(rs, names) ==
    IF names = <<>> THEN rs ELSE DelKey(rs, Head(names))

\* deletes the keys of list_of_all_services (a snapshot) one after another
RECURSIVE DelKeys(_, _)
DelKeys(rs, names) ==
    IF names = <<>> THEN rs ELSE DelKeys(DelKey(rs, Head(names)), Tail(names))

list_of_all_services(rs) == [i \in 1..Len(rs) |-> rs[i].service_name]

deregister_all_services(r) ==
    /\ Idle
    /\ registered_services' =
         [registered_services EXCEPT ![r] = DelKeys(@, list_of_all_services(@))]
    /\ returned' = Call("deregister_all_services", r, None, None)
    /\ UNCHANGED <<service_tracing, threads, hc_breaker, fg, breaker_vars>>

\* start_health_check while fewer than max health-check threads are live
\* (the code has no such test: max only bounds the model)
start_health_check_upto(r, max) ==
    /\ Idle
    /\ BagCardinality(threads) < max
    /\ threads' = threads (+) SetToBag({NewThread(r)})
    /\ returned' = Call("start_health_check", r, None, None)
    /\ UNCHANGED <<registered_services, service_tracing, hc_breaker, fg,
                   breaker_vars>>

start_health_check(r) == start_health_check_upto(r, MaxThreads)

---------------------------------------------------------------------------
(* ServiceRegistry: the health-check thread (_health_check, and            *)
(* _simulate_health_check behind the decorator's make_remote_call)         *)

Probes == {"200", "other", "fail"}   \* status 200, another non-error status,
                                     \* a RequestException

\* the wrapped call raised an Exception: make_remote_call counts it and
\* raises CircuitBreakerException, which nothing catches; the thread ends
BreakerFailure(t) ==
    /\ hc_breaker' = remote_call_failure(hc_breaker)
    /\ threads' = Dies(t)

\* every entry's "healthy" set to v
SetAllHealthy(rs, v) == [i \in 1..Len(rs) |-> [rs[i] EXCEPT !.healthy = v]]

\* _health_check's pass running the operation for the last key, not the first
health_check_for_last(t) ==
    LET rs == registered_services[t.reg]
        gate == remote_call_gate(hc_breaker) IN
    /\ t.pc = "loop"
    /\ IF rs = <<>>
       THEN UNCHANGED <<registered_services, threads>>
       ELSE CASE gate = "skip" ->
                   /\ registered_services' =
                        [registered_services EXCEPT
                           ![t.reg] = SetAllHealthy(@, None)]
                   /\ UNCHANGED threads
              [] gate = "run" ->
                   /\ threads' = Replace(t, [t EXCEPT !.pc = "probing",
                                                     !.name = rs[Len(rs)].service_name])
                   /\ UNCHANGED registered_services
              [] OTHER ->
                   /\ threads' = Dies(t)
                   /\ UNCHANGED registered_services
    /\ returned' = NoCall
    /\ UNCHANGED <<service_tracing, hc_breaker, fg, breaker_vars>>

\* One pass of _health_check's loop, up to where the thread next blocks.  For
\* each key the wrapper runs make_remote_call.  While the breaker skips, the
\* wrapper returns None for every key, None is stored in its "healthy", and
\* the thread sleeps.  Otherwise the operation runs for the first key and
\* blocks in its HTTP request.
health_check_for(t) ==
    LET rs == registered_services[t.reg]
        gate == remote_call_gate(hc_breaker) IN
    /\ t.pc = "loop"
    /\ IF rs = <<>>
       THEN UNCHANGED <<registered_services, threads>>
       ELSE CASE gate = "skip" ->
                   /\ registered_services' =
                        [registered_services EXCEPT
                           ![t.reg] = SetAllHealthy(@, None)]
                   /\ UNCHANGED threads
              [] gate = "run" ->
                   /\ threads' = Replace(t, [t EXCEPT !.pc = "probing",
                                                     !.name = rs[1].service_name])
                   /\ UNCHANGED registered_services
              [] OTHER ->   \* TypeError
                   /\ threads' = Dies(t)
                   /\ UNCHANGED registered_services
    /\ returned' = NoCall
    /\ UNCHANGED <<service_tracing, hc_breaker, fg, breaker_vars>>

\* _simulate_health_check from the HTTP response to its first write.  (The
\* request is sent after reading the entry's url, which raises KeyError for
\* a deleted key exactly as the accesses after the response do; the model
\* lets the sleep end and the url be read at any moment before the response,
\* so the read adds no behaviour and is left to the response step.)
simulate_health_check_response(t, probe) ==
    LET rs == registered_services[t.reg] IN
    /\ t.pc = "probing"
    /\ CASE probe = "200" ->
              IF t.name \notin Keys(rs)
              THEN BreakerFailure(t) /\ UNCHANGED <<registered_services, service_tracing>>
              ELSE /\ registered_services' =
                        [registered_services EXCEPT
                           ![t.reg] = SetField(@, t.name, "availability",
                                        IF Truthy(Entry(rs, t.name).healthy)
                                        THEN "AVAILABLE" ELSE "DOWN")]
                   /\ threads' =
                        Replace(t, [t EXCEPT !.pc =
                                      IF Truthy(Entry(rs, t.name).healthy)
                                      THEN "set_healthy_true"
                                      ELSE "set_healthy_false"])
                   /\ UNCHANGED <<service_tracing, hc_breaker>>
         [] probe = "other" ->   \* nothing to do: sleep, then request again
              UNCHANGED <<registered_services, service_tracing, threads, hc_breaker>>
         [] OTHER ->
              IF t.name \notin Keys(rs)
              THEN BreakerFailure(t) /\ UNCHANGED <<registered_services, service_tracing>>
              ELSE /\ service_tracing[t.reg].failure_requests < MaxFailureRequests
                   /\ registered_services' =
                        [registered_services EXCEPT
                           ![t.reg] = SetField(@, t.name, "healthy", "False")]
                   /\ service_tracing' =
                        [service_tracing EXCEPT ![t.reg].failure_requests = @ + 1]
                   /\ BreakerFailure(t)
    /\ returned' = NoCall
    /\ UNCHANGED <<fg, breaker_vars>>

\* _simulate_health_check's second write, after a 200; then it sleeps and
\* sends the next request
simulate_health_check_healthy(t) ==
    LET rs == registered_services[t.reg] IN
    /\ t.pc \in {"set_healthy_true", "set_healthy_false"}
    /\ IF t.name \notin Keys(rs)
       THEN BreakerFailure(t) /\ UNCHANGED registered_services
       ELSE /\ registered_services' =
                 [registered_services EXCEPT
                    ![t.reg] = SetField(@, t.name, "healthy",
                                 IF t.pc = "set_healthy_true" THEN "True"
                                 ELSE "False")]
            /\ threads' = Replace(t, [t EXCEPT !.pc = "probing"])
            /\ UNCHANGED hc_breaker
    /\ returned' = NoCall
    /\ UNCHANGED <<service_tracing, fg, breaker_vars>>

HealthCheckStep(t, probes) ==
    \/ health_check_for(t)
    \/ \E probe \in probes : simulate_health_check_response(t, probe)
    \/ simulate_health_check_healthy(t)

---------------------------------------------------------------------------
(* The registry with its health-check threads *)

\* the arguments register_services is called with: a new name comes with
\* its own url, a name already registered with any url
RegisterInputs(rs) ==
    Registrations \cup {reg \in ServiceNames \X Urls : reg[1] \in Keys(rs)}

Foreground(r) ==
    \/ \E reg \in RegisterInputs(registered_services[r]) :
          register_services(r, reg[1], reg[2])
    \/ \E n \in ServiceNames : get_service(r, n)
    \/ \E n \in ServiceNames : get_available_services(r, n)
    \/ \E n \in ServiceNames : simulate_service_is_unhealthy(r, n)
    \/ simulate_service_is_unhealthy_2
    \/ \E n \in ServiceNames, m \in ServiceNames :
          assign_service(r, n, m)
    \/ \E n \in ServiceNames : deregister_service(r, n)
    \/ \E n \in ServiceNames : gracefully_shutdown(r, n)
    \/ deregister_all_services(r)
    \/ start_health_check(r)

Next ==
    \/ Foreground(1)
    \/ \E t \in BagToSet(threads) : HealthCheckStep(t, Probes)

Spec == Init /\ [][Next]_vars

---------------------------------------------------------------------------
(* A CircuitBreaker instance driven by its caller, while time passes *)

BreakerStart ==
    \E th \in Thresholds, to \in Timeouts :
      /\ registered_services = [r \in Registries |-> <<>>]
      /\ service_tracing =
           [r \in Registries |->
              [total_requests |-> 0, successful_requests |-> 0,
               failure_requests |-> 0, duration |-> 0]]
      /\ threads = EmptyBag
      /\ hc_breaker = CircuitBreaker(HC_THRESHOLD, HC_TIMEOUT, 0)
      /\ fg = [pc |-> "idle", reg |-> 0, name |-> None]
      /\ returned = NoCall
      /\ now = 0
      /\ circuit_breaker = CircuitBreaker(th, to, now)
      /\ opened_at = NoTime
      /\ calls_made = 0
      /\ only_failing_calls = TRUE
      /\ only_remote_calls = TRUE
      /\ failures_in_a_row = 0

Snapshot(cb) == [state |-> cb.state, failure_counts |-> cb.failure_counts]

breaker_make_remote_call(func) ==
    LET done == make_remote_call(circuit_breaker, func) IN
    /\ calls_made < MaxCalls
    /\ done.cb.failure_counts <= MaxFailureCounts
    /\ circuit_breaker' = done.cb
    /\ returned' = BreakerCall("make_remote_call", func, done.val,
                               Snapshot(circuit_breaker))
    \* open() ran iff the operation failed and handle_open_state held
    /\ opened_at' = IF /\ done.val = "CircuitBreakerException"
                       /\ handle_open_state(done.cb)
                    THEN now ELSE opened_at
    /\ calls_made' = calls_made + 1
    /\ only_failing_calls' = (only_failing_calls /\ func = "raise")
    /\ failures_in_a_row' = CASE done.val = "CircuitBreakerException" ->
                                  failures_in_a_row + 1
                             [] done.val = "Success" -> 0
                             [] OTHER -> failures_in_a_row
    /\ UNCHANGED only_remote_calls
    /\ UNCHANGED <<registry_vars, now>>

breaker_open ==
    /\ circuit_breaker' = open(circuit_breaker)
    /\ opened_at' = now
    /\ returned' = BreakerCall("open", None, None, Snapshot(circuit_breaker))
    /\ only_failing_calls' = FALSE
    /\ only_remote_calls' = FALSE
    /\ UNCHANGED <<registry_vars, now, calls_made, failures_in_a_row>>

breaker_close ==
    /\ circuit_breaker' = close(circuit_breaker)
    /\ returned' = BreakerCall("close", None, None, Snapshot(circuit_breaker))
    /\ only_failing_calls' = FALSE
    /\ only_remote_calls' = FALSE
    /\ UNCHANGED <<registry_vars, now, opened_at, calls_made, failures_in_a_row>>

breaker_half_open ==
    /\ circuit_breaker' = half_open(circuit_breaker)
    /\ returned' = BreakerCall("half_open", None, None, Snapshot(circuit_breaker))
    /\ only_failing_calls' = FALSE
    /\ only_remote_calls' = FALSE
    /\ UNCHANGED <<registry_vars, now, opened_at, calls_made, failures_in_a_row>>

\* a time unit passes
Tick ==
    /\ now < MaxTime
    /\ now' = now + 1
    /\ returned' = NoCall
    /\ UNCHANGED <<registry_vars, circuit_breaker, opened_at, calls_made,
                   only_failing_calls, only_remote_calls, failures_in_a_row>>

BreakerNext ==
    \/ \E func \in {"ok", "raise"} : breaker_make_remote_call(func)
    \/ breaker_open
    \/ breaker_close
    \/ breaker_half_open
    \/ Tick

BreakerSpec == BreakerStart /\ [][BreakerNext]_vars

---------------------------------------------------------------------------
(* Properties *)

Services == registered_services[1]

Registered(n) == n \in Keys(Services)

\* C1: get_service(name) returns the entry's url if name is registered and
\* its "healthy" is True at the call, and raises otherwise (name not
\* registered, or "healthy" False or None); it never returns a url for an
\* unhealthy entry.
C1_GetServiceOnlyHealthy ==
    returned.op = "get_service" =>
        IF Registered(returned.name) /\ Entry(Services, returned.name).healthy = "True"
        THEN returned.val = Entry(Services, returned.name).url
        ELSE returned.val = "ValueError"

\* get_service raised for a registered entry whose "healthy" the health check
\* overwrote with None
C1_Witness ==
    /\ returned.op = "get_service"
    /\ returned.val = "ValueError"
    /\ Registered(returned.name)
    /\ Entry(Services, returned.name).healthy = None

\* C2: get_available_services(name) never raises: it returns a url or None,
\* for every registry state and every name.
C2_GetAvailableNeverRaises ==
    returned.op = "get_available_services" => returned.val \in Urls \cup {None}

\* the resolution order of get_available_services as the specification
\* states it
ReferenceResolution(rs, n) ==
    IF n \in Keys(rs) /\ Entry(rs, n).assigned
    THEN IF Entry(rs, n).assigned_service \in Keys(rs)
         THEN Entry(rs, Entry(rs, n).assigned_service).url
         ELSE None
    ELSE IF n \in Keys(rs) /\ Entry(rs, n).healthy = "True"
    THEN Entry(rs, n).url
    ELSE IF \E i \in 1..Len(rs) : rs[i].availability = "AVAILABLE"
    THEN rs[CHOOSE i \in 1..Len(rs) :
              /\ rs[i].availability = "AVAILABLE"
              /\ \A j \in 1..(i - 1) : rs[j].availability # "AVAILABLE"].url
    ELSE None

\* C3: get_available_services(name) equals the reference resolution: the
\* assigned target's url (None if the target is not registered), else the
\* entry's own url if it is healthy, else the url of the first AVAILABLE
\* entry in insertion order, else None.
C3_GetAvailableIsReference ==
    returned.op = "get_available_services" =>
        returned.val = ReferenceResolution(Services, returned.name)

\* assign_service(a, b) is called on a registered a, in a step
AssignStep(a, b) ==
    /\ returned'.op = "assign_service"
    /\ returned'.name = a
    /\ Registered(a)
    /\ assign_service(1, a, b)

\* b is registered and healthy (before the step)
Assignable(b) == Registered(b) /\ Entry(Services, b).healthy = "True"

\* (after the step) a is assigned to b, b is registered, and
\* get_available_services(a) returns b's url
ResolvesTo(a, b) ==
    /\ Entry(Services, a).assigned
    /\ Entry(Services, a).assigned_service = b
    /\ Registered(b)
    /\ get_available_services_value(Services, a) = Entry(Services, b).url

\* a is assigned to a name that is not registered: get_available_services(a)
\* returns None
DanglingIsNone ==
    \A a \in ServiceNames :
        (/\ Registered(a)
         /\ Entry(Services, a).assigned
         /\ ~Registered(Entry(Services, a).assigned_service))
        => get_available_services_value(Services, a) = None

\* C4, as claimed: after assign_service(A, B) on a registered A,
\* get_available_services(A) returns B's url exactly when B was registered
\* and healthy at the assignment; and once B is deregistered it returns None.
C4_AssignExactlyWhenHealthy ==
    /\ [][\A a, b \in ServiceNames :
            (a # b /\ AssignStep(a, b)) => (Assignable(b) <=> ResolvesTo(a, b)')]_vars
    /\ []DanglingIsNone

\* C4, amended: after assign_service(A, B) on a registered A,
\* get_available_services(A) returns B's url if B was registered and healthy
\* at the assignment; otherwise the call leaves every entry as it was, so A
\* keeps the assignment it had (none, or an earlier one, possibly to B); and
\* once B is deregistered get_available_services(A) returns None.
C4_AssignWhenHealthyElseNoChange ==
    /\ [][\A a, b \in ServiceNames :
            AssignStep(a, b) =>
                IF Assignable(b) THEN ResolvesTo(a, b)'
                ELSE UNCHANGED registered_services]_vars
    /\ []DanglingIsNone

\* get_available_services("A") returned B's url, which is not A's, through
\* A's assignment to B
C4_Witness ==
    /\ returned.op = "get_available_services"
    /\ returned.name = "A"
    /\ Registered("A") /\ Registered("B")
    /\ Entry(Services, "A").assigned
    /\ Entry(Services, "A").assigned_service = "B"
    /\ Entry(Services, "A").url # Entry(Services, "B").url
    /\ returned.val = Entry(Services, "B").url

\* register_services(reg[1], reg[2]) is called, in a step
RegisterStep(reg) ==
    /\ returned'.op = "register_services"
    /\ returned'.name = reg[1]
    /\ register_services(1, reg[1], reg[2])

C6_TripsAtThreshold ==
    (only_failing_calls /\ circuit_breaker.threshold = 3) =>
        /\ calls_made < 3 =>
              /\ circuit_breaker.state = "CLOSED"
              /\ circuit_breaker.failure_counts = calls_made
        /\ calls_made = 3 => circuit_breaker.state = "OPEN"
        /\ (/\ calls_made = 4
            /\ returned.op = "make_remote_call"
            /\ now - opened_at < circuit_breaker.timeout) =>
              /\ returned.pre.state = "OPEN"
              /\ returned.val = None
              /\ circuit_breaker.failure_counts = returned.pre.failure_counts
              /\ circuit_breaker.failure_counts = 3
              /\ circuit_breaker.state = "OPEN"

\* the 4th failing call on a breaker with threshold 3 was skipped, before the
\* timeout had passed
C6_Witness ==
    /\ only_failing_calls
    /\ circuit_breaker.threshold = 3
    /\ calls_made = 4
    /\ now > 0
    /\ now - opened_at < circuit_breaker.timeout
    /\ returned.op = "make_remote_call"
    /\ returned.pre.state = "OPEN"
    /\ returned.val = None

\* C7: a breaker that tripped OPEN through make_remote_call skips a call only
\* while less than timeout has passed since it opened; once timeout has
\* passed, the next make_remote_call runs the operation.
C7_SkipsOnlyDuringCooldown ==
    (/\ returned.op = "make_remote_call"
     /\ only_failing_calls
     /\ returned.pre.state = "OPEN"
     /\ circuit_breaker.timeout > 0
     /\ now - opened_at >= circuit_breaker.timeout)
    => returned.val # None

\* C8: one make_remote_call of a succeeding operation on a HALF_OPEN breaker,
\* whatever its failure_counts, returns the operation's result and leaves the
\* breaker CLOSED with failure_counts 0.
C8_HalfOpenSuccessCloses ==
    (/\ returned.op = "make_remote_call"
     /\ returned.name = "ok"
     /\ returned.pre.state = "HALF")
    => /\ returned.val = "Success"
       /\ circuit_breaker.state = "CLOSED"
       /\ circuit_breaker.failure_counts = 0

\* a succeeding call on a HALF_OPEN breaker that had counted failures
C8_Witness ==
    /\ returned.op = "make_remote_call"
    /\ returned.name = "ok"
    /\ returned.pre.state = "HALF"
    /\ returned.pre.failure_counts > 0
    /\ returned.val = "Success"
    /\ circuit_breaker.state = "CLOSED"

---------------------------------------------------------------------------
(* The registry when every probe answers 200, and health-check threads     *)
(* that are scheduled: a thread that can take a step eventually takes one  *)

HealthyNext ==
    \/ Foreground(1)
    \/ \E t \in BagToSet(threads) : HealthCheckStep(t, {"200"})

HealthySpec ==
    /\ Init
    /\ [][HealthyNext]_vars
    /\ WF_vars(\E t \in BagToSet(threads) : HealthCheckStep(t, {"200"}))

\* C9: while a health-check thread runs and every probe succeeds, every
\* entry that is registered and healthy is eventually AVAILABLE (unless it
\* is deregistered or made unhealthy, or the thread ends, first).
C9_EveryHealthyEntryPromoted ==
    \A n \in ServiceNames :
        (Registered(n) /\ Entry(Services, n).healthy = "True"
                       /\ threads # EmptyBag)
        ~> \/ ~Registered(n)
           \/ Entry(Services, n).healthy # "True"
           \/ Entry(Services, n).availability = "AVAILABLE"
           \/ threads = EmptyBag

\* C10: a failed probe does not end the health-check loop: the thread whose
\* probe failed is still running afterwards.
C10_ProbeFailureKeepsLoop ==
    [][\A t \in BagToSet(threads) :
          simulate_health_check_response(t, "fail") =>
              BagCardinality(threads') = BagCardinality(threads)]_vars

\* the health-check breaker is OPEN and skips calls (its cooldown check
\* fails), and thread t runs one pass of _health_check's loop
SkippedTick(t) ==
    /\ hc_breaker.state = "OPEN"
    /\ remote_call_gate(hc_breaker) = "skip"
    /\ health_check_for(t)

\* C11: while the health-check breaker is OPEN and its cooldown has not
\* elapsed, a health-check tick changes no entry (healthy, availability,
\* assigned, assigned_service) and no tracing counter.
C11_SkippedTickChangesNothing ==
    [][\A t \in BagToSet(threads) :
          SkippedTick(t) => UNCHANGED <<registered_services, service_tracing>>]_vars

\* simulate_service_is_unhealthy(n) is called, in a step
SimulateStep(n) ==
    /\ fg.pc = "idle"
    /\ \/ returned'.op = "simulate_service_is_unhealthy"
       \/ fg'.pc = "simulate_healthy"
    /\ simulate_service_is_unhealthy(1, n)

\* C12: simulate_service_is_unhealthy(name) raises and changes nothing for a
\* name not registered; for an entry that is healthy and AVAILABLE it writes
\* availability DOWN, then healthy False, and adds exactly 1 to
\* failure_requests, and writes nothing else; for any other entry (unhealthy,
\* STARTING or DOWN) it changes no entry and no counter.
C12_SimulateUnhealthyOnlyWhenAvailable ==
    [][/\ \A n \in ServiceNames :
            SimulateStep(n) =>
              IF ~Registered(n)
              THEN /\ returned'.val = "ValueError"
                   /\ UNCHANGED <<registered_services, service_tracing>>
              ELSE IF /\ Entry(Services, n).healthy = "True"
                      /\ Entry(Services, n).availability = "AVAILABLE"
              THEN /\ Services' = SetField(Services, n, "availability", "DOWN")
                   /\ UNCHANGED service_tracing
                   /\ fg'.pc = "simulate_healthy"
              ELSE /\ returned'.val = None
                   /\ fg'.pc = "idle"
                   /\ UNCHANGED <<registered_services, service_tracing>>
       /\ (fg.pc = "simulate_healthy" /\ simulate_service_is_unhealthy_2) =>
              /\ Services' = SetField(Services, fg.name, "healthy", "False")
              /\ service_tracing'[1] =
                   [service_tracing[1] EXCEPT
                      !.failure_requests = service_tracing[1].failure_requests + 1]
              /\ returned'.op = "simulate_service_is_unhealthy"
              /\ returned'.val = None]_vars

\* simulate_service_is_unhealthy returned after its writes: the entry is DOWN
\* and unhealthy and the one counted failure is its own (no probe has failed)
C12_Witness ==
    /\ returned.op = "simulate_service_is_unhealthy"
    /\ returned.val = None
    /\ Registered(returned.name)
    /\ Entry(Services, returned.name).availability = "DOWN"
    /\ Entry(Services, returned.name).healthy = "False"
    /\ service_tracing[1].failure_requests = 1
    /\ hc_breaker.failure_counts = 0

\* gracefully_shutdown(n) is called, in a step
ShutdownStep(n) ==
    /\ returned'.op = "gracefully_shutdown"
    /\ returned'.name = n
    /\ gracefully_shutdown(1, n)

\* C13: gracefully_shutdown(name) removes the entry of a registered name,
\* and for a name that is not registered it raises the error that
\* deregister_service raises (ValueError) instead of returning.
C13_ShutdownUnknownRaises ==
    [][\A n \in ServiceNames :
          ShutdownStep(n) =>
              IF Registered(n)
              THEN /\ returned'.val = None
                   /\ Services' = DelKey(Services, n)
              ELSE /\ returned'.val = "ValueError"
                   /\ UNCHANGED registered_services]_vars

\* deregister_all_services() is called, in a step
DeregisterAllStep ==
    /\ returned'.op = "deregister_all_services"
    /\ deregister_all_services(1)

\* C14: from every reachable registry state deregister_all_services()
\* returns without raising, and list_of_all_services is empty afterwards.
C14_DeregisterAllEmpties ==
    [][DeregisterAllStep =>
          /\ returned'.val = None
          /\ list_of_all_services(Services') = <<>>
          /\ Services' = <<>>]_vars

\* deregister_all_services returned and the registry is empty, while a
\* health-check thread is between its two writes to an entry now deleted
C14_Witness ==
    /\ returned.op = "deregister_all_services"
    /\ returned.val = None
    /\ Services = <<>>
    /\ \E t \in BagToSet(threads) : t.pc = "set_healthy_true"

\* thread t reads or writes the availability or healthy of its entry, in a
\* step
ThreadTouchesEntry(t) ==
    \/ \E probe \in {"200", "fail"} : simulate_health_check_response(t, probe)
    \/ simulate_health_check_healthy(t)

\* the foreground caller writes or deletes the entry of n, in a step
ForegroundWritesEntry(n) ==
    \/ /\ fg.pc = "idle"
       /\ fg'.pc = "simulate_healthy"
       /\ fg'.name = n
    \/ /\ returned'.op \in {"deregister_service", "gracefully_shutdown",
                            "deregister_all_services"}
       /\ Registered(n)
       /\ ~Registered(n)'

\* the foreground caller reads the availability or healthy of n's entry, in
\* a step
ForegroundReadsEntry(n) ==
    /\ returned'.op \in {"get_service", "get_available_services",
                         "simulate_service_is_unhealthy"}
    /\ returned'.name = n
    /\ Registered(n)

\* thread t has written its entry's availability and not yet its healthy
BetweenWrites(t) ==
    /\ t.pc \in {"set_healthy_true", "set_healthy_false"}
    /\ t.reg = 1

\* ... and the healthy it is about to write is not the one the entry holds
HalfUpdated(t) ==
    /\ BetweenWrites(t)
    /\ Registered(t.name)
    /\ Entry(Services, t.name).healthy #
         (IF t.pc = "set_healthy_true" THEN "True" ELSE "False")

\* C15: no entry is observed or written by another thread while it is half
\* updated.  While simulate_service_is_unhealthy is between its two writes
\* (availability, then healthy), no health-check thread reads or writes the
\* entry; while a health-check thread is between its two writes, the
\* foreground caller does not write the entry, and does not read it when its
\* healthy is still the old value.
C15_NoHalfUpdatedEntry ==
    [][\A t \in BagToSet(threads) :
          /\ (fg.pc = "simulate_healthy" /\ fg.reg = t.reg /\ fg.name = t.name)
                => ~ThreadTouchesEntry(t)
          /\ BetweenWrites(t) => ~ForegroundWritesEntry(t.name)
          /\ HalfUpdated(t) => ~ForegroundReadsEntry(t.name)]_vars

---------------------------------------------------------------------------
(* A registry on which start_health_check is called again and again, with  *)
(* every probe answering 200                                               *)

StartsNext ==
    \/ \E reg \in RegisterInputs(Services) :
          register_services(1, reg[1], reg[2])
    \/ start_health_check_upto(1, MaxStarts)
    \/ \E t \in BagToSet(threads) : HealthCheckStep(t, {"200"})

StartsSpec == Init /\ [][StartsNext]_vars

\* the number of live health-check threads of registry r
ThreadsOf(r) ==
    BagCardinality([t \in {u \in BagToSet(threads) : u.reg = r} |-> threads[t]])

\* C16: for one registry at most one health-check thread is active at any
\* time, however often start_health_check is called.
C16_AtMostOneHealthCheckTask ==
    \A r \in Registries : ThreadsOf(r) <= 1

\* C17: a breaker driven only by make_remote_call trips from CLOSED to OPEN
\* only when threshold operations in a row have failed: failures with a
\* success between them do not add up to a trip.
C17_TripsOnConsecutiveFailuresOnly ==
    (/\ only_remote_calls
     /\ returned.op = "make_remote_call"
     /\ returned.pre.state = "CLOSED"
     /\ circuit_breaker.state = "OPEN")
    => failures_in_a_row >= circuit_breaker.threshold

\* C18: a make_remote_call on an OPEN breaker whose cooldown check passes,
\* with an operation that succeeds, leaves the breaker CLOSED.
C18_OpenSuccessCloses ==
    (/\ returned.op = "make_remote_call"
     /\ returned.pre.state = "OPEN"
     /\ returned.val = "Success")
    => circuit_breaker.state = "CLOSED"

---------------------------------------------------------------------------
(* A registry on which services are registered and the health check is     *)
(* started, with every probe answering 200 and the health-check thread     *)
(* scheduled                                                               *)

StartedNext ==
    \/ \E reg \in RegisterInputs(Services) :
          register_services(1, reg[1], reg[2])
    \/ \E n \in ServiceNames : get_service(1, n)
    \/ \E n \in ServiceNames : get_available_services(1, n)
    \/ start_health_check(1)
    \/ \E t \in BagToSet(threads) : HealthCheckStep(t, {"200"})

StartedSpec ==
    /\ Init
    /\ [][StartedNext]_vars
    /\ WF_vars(\E t \in BagToSet(threads) : HealthCheckStep(t, {"200"}))

\* C19: with two or more services registered, the health check started and
\* every probe succeeding, every service registered after the first keeps
\* availability STARTING in every state, and the first-registered service
\* becomes healthy and AVAILABLE.
C19_OnlyFirstServicePromoted ==
    /\ [](\A i \in 2..Len(Services) : Services[i].availability = "STARTING")
    /\ (Len(Services) >= 2 /\ threads # EmptyBag)
         ~> (/\ Len(Services) >= 2
             /\ Services[1].availability = "AVAILABLE"
             /\ Services[1].healthy = "True")

\* two services, the health check running: the first is AVAILABLE and
\* healthy, the second still STARTING
C19_Witness ==
    /\ Len(Services) >= 2
    /\ threads # EmptyBag
    /\ Services[1].availability = "AVAILABLE"
    /\ Services[1].healthy = "True"
    /\ Services[2].availability = "STARTING"

\* C20: unhealthy is absorbing for a registration: once the healthy of a
\* registered entry is not True, no foreground call and no health-check step
\* sets it to True while the entry stays registered.
C20_UnhealthyIsAbsorbing ==
    [][\A n \in ServiceNames :
          (/\ Registered(n)
           /\ Entry(Services, n).healthy # "True"
           /\ Registered(n)')
          => Entry(Services, n).healthy' # "True"]_vars

---------------------------------------------------------------------------
(* Two registries in one process, each with services registered and its    *)
(* health check started                                                    *)

\* The breaker behind registry r's _simulate_health_check.  The decorator
\* runs once, when the class body is executed, and its wrapper closes over
\* the one CircuitBreaker it created then: the breaker is the same for
\* every instance of the class.
BreakerOf(r) == hc_breaker

TwoRegistriesNext ==
    \/ \E r \in Registries :
          \E reg \in RegisterInputs(registered_services[r]) :
             register_services(r, reg[1], reg[2])
    \/ \E r \in Registries : start_health_check(r)
    \/ \E t \in BagToSet(threads) : HealthCheckStep(t, Probes)

TwoRegistriesSpec == Init /\ [][TwoRegistriesNext]_vars

\* a health-check thread of registry r takes a step
HealthCheckStepOf(r) ==
    \E t \in BagToSet(threads) : t.reg = r /\ HealthCheckStep(t, Probes)

\* C21: two registries do not share health-check breaker state: a step of
\* registry 1's health check, a failed probe included, never changes the
\* failure count or the state of the breaker behind registry 2's health
\* check (and the other way round).
C21_BreakersNotShared ==
    [][\A r1, r2 \in Registries :
          (r1 # r2 /\ HealthCheckStepOf(r1)) =>
              /\ BreakerOf(r2).failure_counts' = BreakerOf(r2).failure_counts
              /\ BreakerOf(r2).state' = BreakerOf(r2).state]_vars

====
